---------------------------- MODULE Spec2Model ----------------------------
(***************************************************************************)
(* GIF Maker (src/App.tsx): the image normaliser processImage, the frame   *)
(* collection held in the App component's state, the GIF assembly started  *)
(* by handleCreateGif and the phase machine AppState, as a state machine.  *)
(***************************************************************************)
EXTENDS Integers, Sequences, FiniteSets, TLC

(***************************************************************************)
(* Bounds of the model.                                                    *)
(***************************************************************************)
\* files picked in one session, over all its picker selections
MaxSessionFiles == 3
\* dimensions 1..SmallDims are among the normaliser's sampled inputs
SmallDims == 4
\* dimensions maxDimension-EdgeDims..maxDimension+EdgeDims are sampled too
EdgeDims == 3

(***************************************************************************)
(* JavaScript numbers.  processImage computes (height / width) * max in    *)
(* IEEE-754 binary64: the quotient is rounded to 53 significant bits, the  *)
(* product is rounded again, and Math.round rounds the result half up.     *)
(* A double x > 0 is [sig |-> <<b1..b53>>, e |-> k] with b1 = 1 and        *)
(* x = b1.b2...b53 (binary) * 2^k.                                         *)
(***************************************************************************)
SignificandBits == 53

RECURSIVE Pow2(_)
Pow2(n) == IF n = 0 THEN 1 ELSE 2 * Pow2(n - 1)

\* 2^n mod b, by repeated squaring
RECURSIVE PowMod2(_, _)
PowMod2(n, b) ==
    IF n = 0 THEN 1 % b
    ELSE LET h == PowMod2(n \div 2, b)
         IN  (IF n % 2 = 0 THEN h * h ELSE 2 * h * h) % b

\* the k <= 0 with b * 2^k <= a < b * 2^(k+1), for 0 < a <= b
RECURSIVE Exponent(_, _)
Exponent(a, b) == IF 2 * a <= b THEN Exponent(2 * a, b) - 1 ELSE IF a < b THEN -1 ELSE 0

\* the integer bits[1..n] denotes, most significant bit first
RECURSIVE BitsValue(_, _)
BitsValue(bits, n) == IF n = 0 THEN 0 ELSE 2 * BitsValue(bits, n - 1) + bits[n]

\* the w low bits of v, most significant first
FixedBits(v, w) == [i \in 1..w |-> (v \div Pow2(w - i)) % 2]

RECURSIVE BitLength(_)
BitLength(v) == IF v = 0 THEN 0 ELSE 1 + BitLength(v \div 2)

\* the first n bits after the point of r / b (0 <= r < b) and whether more follow:
\* bit i is floor(2 * (r * 2^(i-1) mod b) / b)
DivBits(r, b, n) ==
    [bits |-> [i \in 1..n |-> (2 * ((r * PowMod2(i - 1, b)) % b)) \div b],
     rem  |-> (r * PowMod2(n, b)) % b]

\* bits + 1; carry = 1 when it overflows
IncBits(bits) ==
    LET n     == Len(bits)
        zeros == {i \in 1..n : bits[i] = 0}
    IN  IF zeros = {} THEN [bits |-> [i \in 1..n |-> 0], carry |-> 1]
        ELSE LET j == CHOOSE i \in zeros : \A z \in zeros : z <= i
             IN  [bits  |-> [i \in 1..n |-> IF i < j THEN bits[i] ELSE IF i = j THEN 1 ELSE 0],
                  carry |-> 0]

\* round-to-nearest, ties-to-even, of the exact value bits[1].bits[2]... * 2^e
\* (bits[1] = 1, at least 53 bits; sticky: something non-zero lies beyond bits)
RoundNearestEven(bits, e, sticky) ==
    LET p     == SignificandBits
        keep  == SubSeq(bits, 1, p)
        guard == IF Len(bits) > p THEN bits[p + 1] ELSE 0
        below == sticky \/ \E i \in (p + 2)..Len(bits) : bits[i] = 1
        up    == guard = 1 /\ (below \/ keep[p] = 1)
        inc   == IncBits(keep)
    IN  IF ~up THEN [sig |-> keep, e |-> e]
        ELSE IF inc.carry = 1 THEN [sig |-> <<1>> \o SubSeq(inc.bits, 1, p - 1), e |-> e + 1]
        ELSE [sig |-> inc.bits, e |-> e]

\* the double a / b, for integers 0 < a <= b < 2^15
Fdiv(a, b) ==
    LET k == Exponent(a, b)
        \* a / b = (n / b) * 2^k with 1 <= n / b < 2
        n == a * Pow2(-k)
        q == DivBits(n - b, b, SignificandBits)
    IN  RoundNearestEven(<<1>> \o q.bits, k, q.rem # 0)

\* bits * m + carry for an integer 0 < m < 2^14, sixteen bits at a time from the
\* low end; most significant bit first, no leading zero
RECURSIVE MulBits(_, _, _)
MulBits(bits, m, carry) ==
    IF bits = <<>> THEN FixedBits(carry, BitLength(carry))
    ELSE LET n == Len(bits)
             w == IF n >= 16 THEN 16 ELSE n
             v == BitsValue(SubSeq(bits, n - w + 1, n), w) * m + carry
         IN  MulBits(SubSeq(bits, 1, n - w), m, v \div Pow2(w)) \o FixedBits(v % Pow2(w), w)

\* the double x * m, for a double x > 0 and an integer 0 < m < 2^14
Fmul(x, m) ==
    LET prod == MulBits(x.sig, m, 0)
    IN  RoundNearestEven(prod, x.e + (Len(prod) - SignificandBits), FALSE)

\* Math.round(x) for a double 0 < x < 2^31: floor(x + 1/2), the integer part
\* (the first x.e + 1 bits) plus the first bit after the binary point
MathRound(x) ==
    IF x.e < -1 THEN 0
    ELSE IF x.e = -1 THEN 1
    ELSE BitsValue(x.sig, x.e + 1) + x.sig[x.e + 2]

(***************************************************************************)
(* processImage (src/App.tsx:16-56): the canvas size it draws the image to.*)
(***************************************************************************)
maxDimension == 1920

processImage(width, height) ==
    IF width <= maxDimension /\ height <= maxDimension
    THEN [width |-> width, height |-> height]
    ELSE IF width > height
    THEN [width  |-> maxDimension,
          height |-> MathRound(Fmul(Fdiv(height, width), maxDimension))]
    ELSE [width  |-> MathRound(Fmul(Fdiv(width, height), maxDimension)),
          height |-> maxDimension]
\* the natural sizes of the image files of a session
ImageSizes == {<<800, 600>>, <<3000, 2000>>}

\* the canvas size of each, computed once

canvasSize == [s \in ImageSizes |-> processImage(s[1], s[2])]

(***************************************************************************)
(* Values.                                                                 *)
(***************************************************************************)
Null == [null |-> TRUE]

\* AppState (src/types.ts:6-11)
Capturing  == "Capturing"
Processing == "Processing"
Animating  == "Animating"
Error      == "Error"
AppState   == {Capturing, Processing, Animating, Error}

\* the messages of the Error objects and of setError
ErrReadFile     == "Khong the doc tep da chon."
ErrLoadImage    == "Failed to load image for processing."
ErrCanvas       == "Could not get canvas context."
ErrCanvasResize == "Could not get canvas context for resizing."
ErrMinFrames    == "Vui long tai len it nhat 2 anh de tao GIF."
ErrProbe        == "Khong the doc kich thuoc anh de tao GIF."
ErrGifFailed    == "Tao GIF that bai: "

\* an Error with a message; the template string of the encoder failure keeps
\* the encoder's errorMsg after the fixed text
Message(m)       == [message |-> m, errorMsg |-> ""]
GifFailed(errMsg) == [message |-> ErrGifFailed, errorMsg |-> errMsg]

\* what a File of the picker is: its declared MIME type, as <<type, subtype>>,
\* and, for an image, the natural size it decodes to
ImageFiles == {[type |-> <<"image", "png">>, size |-> s] : s \in ImageSizes}
OtherFiles == {[type |-> <<"text", "plain">>, size |-> <<0, 0>>]}
Files      == ImageFiles \cup OtherFiles

\* file.type.startsWith('image/') (src/App.tsx:136)
IsImageType(file) == file.type[1] = "image"

\* the FileList of one picker selection
FileLists == UNION {[1..n -> Files] : n \in 0..MaxSessionFiles}

\* the values the range input and the number input hand to onChange
SliderInputs == {100}
NumberInputs == {0}

\* what the encoder puts in obj.errorMsg
EncoderMessages == {"oom", ""}

RECURSIVE GCD(_, _)
GCD(a, b) == IF b = 0 THEN a ELSE GCD(b, a % b)

\* gifSpeed / 1000 (src/App.tsx:191), as a fraction in lowest terms
Seconds(ms) ==
    LET g == GCD(IF ms < 0 THEN -ms ELSE ms, 1000)
    IN  [num |-> ms \div g, den |-> 1000 \div g]

VARIABLES
    appState,      \* useState<AppState>
    images,        \* useState: the frames, each [id, dataUrl]
    generatedGif,  \* useState: the encoder's image, or Null
    loading,       \* useState<boolean>
    error,         \* useState: an error message, or Null
    gifSpeed,      \* useState<number>: ms per frame
    batches,       \* the promises of every handleFileChange call so far, with history
    nextId,        \* the ids crypto.randomUUID has handed out, as a counter
    firstImage,    \* the Image probing the first frame, with its handlers' closure
    gifshot,       \* the options of the createGIF call that has not called back
    isExporting,   \* AnimationPlayer's useState
    img,           \* processImage alone: the decoded image
    canvas         \* processImage alone: the canvas it drew to

vars == <<appState, images, generatedGif, loading, error, gifSpeed, batches,
          nextId, firstImage, gifshot, isExporting, img, canvas>>

(***************************************************************************)
(* handleFileChange (src/App.tsx:126-171) and the promises it creates.     *)
(***************************************************************************)
\* a promise of imagePromises: pending on the FileReader ("reading") or on
\* processImage ("decoding"), with the file as its value; never settled ("stuck");
\* resolved, with a frame or Null; rejected, with the Error's message.  Once
\* Promise.all has settled nothing reads a settled promise again: it is "dropped".
\* A batch is its promises, the state of their Promise.all and, as history that
\* no handler reads, the frames there were when it was submitted (atSubmit,
\* while it is unsettled) and the ids of those removed before it settled.
Promise(st, v) == [st |-> st, value |-> v]

InFlight(p) == p.st \in {"reading", "decoding"}

Dropped(promises) ==
    [i \in 1..Len(promises) |->
        IF InFlight(promises[i]) THEN promises[i] ELSE Promise("dropped", Null)]

\* variant: a file that is not an image rejects its promise
NewPromiseMutRejectsOther(file) ==
    IF ~IsImageType(file) THEN Promise("rejected", ErrReadFile) ELSE Promise("reading", file)

\* new Promise(...) for one file (src/App.tsx:135-157), as it stands when
\* handleFileChange reaches its await
NewPromise(file) ==
    IF ~IsImageType(file) THEN Promise("resolved", Null) ELSE Promise("reading", file)

RECURSIVE NewImages(_)
\* variant: the frames in the order their normalisations completed (by id)
NewImagesMutCompletionOrder(promises) ==
    LET got == {i \in 1..Len(promises) : promises[i].value # Null}
        RECURSIVE ById(_)
        ById(S) == IF S = {} THEN <<>>
                   ELSE LET i == CHOOSE j \in S : \A k \in S : promises[j].value.id <= promises[k].value.id
                        IN  <<promises[i].value>> \o ById(S \ {i})
    IN  ById(got)

\* the values of the promises in input order, nulls filtered (src/App.tsx:161)
NewImages(promises) ==
    IF promises = <<>> THEN <<>>
    ELSE LET rest == NewImages(Tail(promises))
         IN  IF Head(promises).value # Null THEN <<Head(promises).value>> \o rest ELSE rest

AllResolved(promises) == \A i \in 1..Len(promises) : promises[i].st = "resolved"

\* variant: the append made to the frames there were at the submission
OnBatchFulfilledMutStale(promises) ==
    /\ images' = batches[CHOOSE b \in 1..Len(batches) : batches[b].all = "pending"].atSubmit
                     \o NewImages(promises)
    /\ loading' = FALSE
    /\ UNCHANGED <<error, appState>>

\* the try block after the await (src/App.tsx:161-162, 166)
OnBatchFulfilled(promises) ==
    /\ images' = images \o NewImages(promises)
    /\ loading' = FALSE
    /\ UNCHANGED <<error, appState>>

\* variant: the catch block keeps the frames that had resolved
OnBatchRejectedMutKeepsResolved(promises, err) ==
    /\ images' = images \o NewImages(SelectSeq(promises, LAMBDA p : p.st = "resolved"))
    /\ error' = Message(err)
    /\ loading' = FALSE
    /\ UNCHANGED appState

\* variant: the catch block also enters the Error phase
OnBatchRejectedMutErrorPhase(promises, err) ==
    /\ error' = Message(err)
    /\ loading' = FALSE
    /\ appState' = Error
    /\ UNCHANGED images

\* variant: the catch block without the finally block
OnBatchRejectedMutKeepsLoading(promises, err) ==
    /\ error' = Message(err)
    /\ UNCHANGED <<images, loading, appState>>

\* the catch and finally blocks (src/App.tsx:163-167): every rejection is an Error
OnBatchRejected(promises, err) ==
    /\ error' = Message(err)
    /\ loading' = FALSE
    /\ UNCHANGED <<images, appState>>

\* the ids of a sequence of frames
FrameIds(frames) == {frames[k].id : k \in 1..Len(frames)}

\* promise i of batch b settles (or sticks) as p; Promise.all and the code after
\* the await follow at once, in microtasks
Settle(b, i, p) ==
    LET promises == [batches[b].promises EXCEPT ![i] = p]
        all      == IF batches[b].all # "pending" THEN batches[b].all
                    ELSE IF p.st = "rejected" THEN "rejected"
                    ELSE IF AllResolved(promises) THEN "fulfilled"
                    ELSE "pending"
    IN  /\ batches' = [batches EXCEPT ![b] =
               [promises |-> IF all = "pending" THEN promises ELSE Dropped(promises),
                all      |-> all,
                atSubmit |-> IF all = "pending" THEN batches[b].atSubmit ELSE <<>>,
                removed  |-> IF batches[b].all = "pending" /\ all # "pending"
                             THEN FrameIds(batches[b].atSubmit) \ FrameIds(images)
                             ELSE batches[b].removed]]
        /\ IF batches[b].all # "pending" \/ all = "pending"
           THEN UNCHANGED <<images, error, loading, appState>>
           ELSE IF all = "rejected" THEN OnBatchRejected(promises, p.value)
           ELSE OnBatchFulfilled(promises)

\* variant: without setError(null)
handleFileChangeMutKeepsError(files) ==
    IF Len(files) = 0 THEN UNCHANGED vars
    ELSE LET promises == [i \in 1..Len(files) |-> NewPromise(files[i])]
             all      == IF AllResolved(promises) THEN "fulfilled" ELSE "pending"
         IN  /\ batches' = Append(batches,
                    [promises |-> IF all = "pending" THEN promises ELSE Dropped(promises),
                     all      |-> all,
                     atSubmit |-> IF all = "pending" THEN images ELSE <<>>,
                     removed  |-> {}])
             /\ IF all = "fulfilled"
                THEN /\ images' = images \o NewImages(promises)
                     /\ loading' = FALSE
                ELSE /\ loading' = TRUE
                     /\ UNCHANGED images
             /\ UNCHANGED <<appState, error, generatedGif, gifSpeed, nextId, firstImage, gifshot,
                            isExporting, img, canvas>>

\* handleFileChange up to its await (src/App.tsx:126-160); with no image file
\* among files nothing is pending and the code after the await follows at once
handleFileChange(files) ==
    IF Len(files) = 0 THEN UNCHANGED vars
    ELSE LET promises == [i \in 1..Len(files) |-> NewPromise(files[i])]
             all      == IF AllResolved(promises) THEN "fulfilled" ELSE "pending"
         IN  /\ batches' = Append(batches,
                    [promises |-> IF all = "pending" THEN promises ELSE Dropped(promises),
                     all      |-> all,
                     atSubmit |-> IF all = "pending" THEN images ELSE <<>>,
                     removed  |-> {}])
             /\ error' = Null
             /\ IF all = "fulfilled"
                THEN /\ images' = images \o NewImages(promises)
                     /\ loading' = FALSE
                ELSE /\ loading' = TRUE
                     /\ UNCHANGED images
             /\ UNCHANGED <<appState, generatedGif, gifSpeed, nextId, firstImage, gifshot,
                            isExporting, img, canvas>>

Pending(b, i, st) ==
    /\ b \in 1..Len(batches)
    /\ i \in 1..Len(batches[b].promises)
    /\ batches[b].promises[i].st = st

\* reader.onload (src/App.tsx:141-152): with an empty result nothing settles
ReaderOnLoad(b, i, hasResult) ==
    /\ Pending(b, i, "reading")
    /\ Settle(b, i, IF hasResult THEN Promise("decoding", batches[b].promises[i].value)
                               ELSE Promise("stuck", Null))
    /\ UNCHANGED <<generatedGif, gifSpeed, nextId, firstImage, gifshot,
                   isExporting, img, canvas>>

\* reader.onerror (src/App.tsx:153-155)
ReaderOnError(b, i) ==
    /\ Pending(b, i, "reading")
    /\ Settle(b, i, Promise("rejected", ErrReadFile))
    /\ UNCHANGED <<generatedGif, gifSpeed, nextId, firstImage, gifshot,
                   isExporting, img, canvas>>

\* img.onload of processImage, then resolve (src/App.tsx:19-52, 145-146);
\* hasContext: canvas.getContext('2d') is not null
ImgOnLoad(b, i, hasContext) ==
    /\ Pending(b, i, "decoding")
    /\ LET size  == batches[b].promises[i].value.size
           fits  == size[1] <= maxDimension /\ size[2] <= maxDimension
           out   == canvasSize[size]
           frame == [id |-> nextId,
                     dataUrl |-> [batch |-> b, file |-> i,
                                  width |-> out.width, height |-> out.height]]
       IN  IF hasContext
           THEN /\ Settle(b, i, Promise("resolved", frame))
                /\ nextId' = nextId + 1
           ELSE /\ Settle(b, i, Promise("rejected", IF fits THEN ErrCanvas ELSE ErrCanvasResize))
                /\ UNCHANGED nextId
    /\ UNCHANGED <<generatedGif, gifSpeed, firstImage, gifshot,
                   isExporting, img, canvas>>

\* img.onerror of processImage (src/App.tsx:53, 147-150)
ImgOnError(b, i) ==
    /\ Pending(b, i, "decoding")
    /\ Settle(b, i, Promise("rejected", ErrLoadImage))
    /\ UNCHANGED <<generatedGif, gifSpeed, nextId, firstImage, gifshot,
                   isExporting, img, canvas>>

(***************************************************************************)
(* The other handlers of App.                                              *)
(***************************************************************************)
\* variant: the filter's test inverted
RemoveByIdMutKeepsOnlyId(prev, id) == SelectSeq(prev, LAMBDA f : f.id = id)

\* prev.filter(img => img.id !== id) (src/App.tsx:178)
RemoveById(prev, id) == SelectSeq(prev, LAMBDA f : f.id # id)

handleRemoveImage(id) ==
    /\ images' = RemoveById(images, id)
    /\ UNCHANGED <<appState, generatedGif, loading, error, gifSpeed, batches, nextId,
                   firstImage, gifshot, isExporting, img, canvas>>

\* onChange={v => setGifSpeed(v)} (src/App.tsx:265)
setGifSpeed(v) ==
    /\ gifSpeed' = v
    /\ UNCHANGED <<appState, images, generatedGif, loading, error, batches, nextId,
                   firstImage, gifshot, isExporting, img, canvas>>

\* images.map(img => img.dataUrl) (src/App.tsx:190)
DataUrls(frames) == [i \in 1..Len(frames) |-> frames[i].dataUrl]

MinFrames == 2

\* variant: the guard lets a single frame through
handleCreateGifMutOneFrame ==
    IF Len(images) < 1
    THEN /\ error' = Message(ErrMinFrames)
         /\ UNCHANGED <<appState, images, generatedGif, loading, gifSpeed, batches, nextId,
                        firstImage, gifshot, isExporting, img, canvas>>
    ELSE /\ appState' = Processing
         /\ error' = Null
         /\ firstImage' = [src |-> images[1].dataUrl,
                           imageUrls |-> DataUrls(images),
                           intervalInSeconds |-> Seconds(gifSpeed)]
         /\ UNCHANGED <<images, generatedGif, loading, gifSpeed, batches, nextId,
                        gifshot, isExporting, img, canvas>>

\* handleCreateGif up to firstImage.src = ... (src/App.tsx:181-218)
handleCreateGif ==
    IF Len(images) < MinFrames
    THEN /\ error' = Message(ErrMinFrames)
         /\ UNCHANGED <<appState, images, generatedGif, loading, gifSpeed, batches, nextId,
                        firstImage, gifshot, isExporting, img, canvas>>
    ELSE /\ appState' = Processing
         /\ error' = Null
         /\ firstImage' = [src |-> images[1].dataUrl,
                           imageUrls |-> DataUrls(images),
                           intervalInSeconds |-> Seconds(gifSpeed)]
         /\ UNCHANGED <<images, generatedGif, loading, gifSpeed, batches, nextId,
                        gifshot, isExporting, img, canvas>>

NumWorkers == 2

\* variant: the size of the last frame instead of the first
CreateGifOptionsMutLastFrame(probe) ==
    [images     |-> probe.imageUrls,
     interval   |-> probe.intervalInSeconds,
     numWorkers |-> NumWorkers,
     gifWidth   |-> probe.imageUrls[Len(probe.imageUrls)].width,
     gifHeight  |-> probe.imageUrls[Len(probe.imageUrls)].height]

\* the options of gifshot.createGIF (src/App.tsx:196-202)
CreateGifOptions(probe) ==
    [images     |-> probe.imageUrls,
     interval   |-> probe.intervalInSeconds,
     numWorkers |-> NumWorkers,
     gifWidth   |-> probe.src.width,
     gifHeight  |-> probe.src.height]

\* firstImage.onload (src/App.tsx:195-212): a data URL of an empty canvas does
\* not decode, so it loads only with both dimensions positive
FirstImageOnLoad ==
    /\ firstImage # Null
    /\ firstImage.src.width >= 1 /\ firstImage.src.height >= 1
    /\ gifshot' = CreateGifOptions(firstImage)
    /\ firstImage' = Null
    /\ UNCHANGED <<appState, images, generatedGif, loading, error, gifSpeed, batches,
                   nextId, isExporting, img, canvas>>

\* firstImage.onerror (src/App.tsx:213-216)
FirstImageOnError ==
    /\ firstImage # Null
    /\ error' = Message(ErrProbe)
    /\ appState' = Capturing
    /\ firstImage' = Null
    /\ UNCHANGED <<images, generatedGif, loading, gifSpeed, batches, nextId, gifshot,
                   isExporting, img, canvas>>

\* the image the encoder makes of its options
Encoded(options) == [gif |-> options]

\* variant: an encoder failure enters the Error phase
OnGifFailedMutErrorPhase(errMsg) ==
    /\ error' = GifFailed(errMsg)
    /\ appState' = Error
    /\ UNCHANGED generatedGif

\* the callback of createGIF (src/App.tsx:202-211)
OnGifFailed(errMsg) ==
    /\ error' = GifFailed(errMsg)
    /\ appState' = Capturing
    /\ UNCHANGED generatedGif

GifshotCallback(obj) ==
    /\ gifshot # Null
    /\ IF ~obj.error
       THEN /\ generatedGif' = obj.image
            /\ appState' = Animating
            /\ UNCHANGED error
       ELSE OnGifFailed(obj.errorMsg)
    /\ gifshot' = Null
    /\ UNCHANGED <<images, loading, gifSpeed, batches, nextId, firstImage,
                   isExporting, img, canvas>>

\* the encoder's answers to the pending call
GifshotSucceeds == GifshotCallback([error |-> FALSE, image |-> Encoded(gifshot), errorMsg |-> ""])
GifshotFails(errMsg) == GifshotCallback([error |-> TRUE, image |-> Null, errorMsg |-> errMsg])

\* variant: with the commented-out setImages([]) (src/App.tsx:224)
handleBackMutClearsImages ==
    /\ appState' = Capturing
    /\ generatedGif' = Null
    /\ images' = <<>>
    /\ isExporting' = FALSE
    /\ UNCHANGED <<loading, error, gifSpeed, batches, nextId, firstImage, gifshot,
                   img, canvas>>

\* variant: without setGeneratedGif(null)
handleBackMutKeepsGif ==
    /\ appState' = Capturing
    /\ isExporting' = FALSE
    /\ UNCHANGED <<images, generatedGif, loading, error, gifSpeed, batches, nextId,
                   firstImage, gifshot, img, canvas>>

\* handleBack (src/App.tsx:220-225); the AnimationPlayer it unmounts loses its state
handleBack ==
    /\ appState' = Capturing
    /\ generatedGif' = Null
    /\ isExporting' = FALSE
    /\ UNCHANGED <<images, loading, error, gifSpeed, batches, nextId, firstImage, gifshot,
                   img, canvas>>

\* AnimationPlayer.handleExport and its timer (src/App.tsx:357-367)
handleExport ==
    /\ isExporting' = TRUE
    /\ UNCHANGED <<appState, images, generatedGif, loading, error, gifSpeed, batches,
                   nextId, firstImage, gifshot, img, canvas>>

\* variant: the timer's callback leaves the flag set
ExportTimeoutMutKeepsFlag ==
    /\ isExporting
    /\ isExporting' = TRUE
    /\ UNCHANGED <<appState, images, generatedGif, loading, error, gifSpeed, batches,
                   nextId, firstImage, gifshot, img, canvas>>

\* setTimeout(() => setIsExporting(false), 500) (src/App.tsx:366)
ExportTimeout ==
    /\ isExporting
    /\ isExporting' = FALSE
    /\ UNCHANGED <<appState, images, generatedGif, loading, error, gifSpeed, batches,
                   nextId, firstImage, gifshot, img, canvas>>

(***************************************************************************)
(* What renderContent (src/App.tsx:227-315) lets the user do.              *)
(***************************************************************************)
\* variant: without the loading flag
isCreateDisabledMutIgnoresLoading == Len(images) < MinFrames

\* isCreateDisabled (src/App.tsx:227)
isCreateDisabled == Len(images) < MinFrames \/ loading

\* the files of the first n picker selections
RECURSIVE FilesPicked(_)
FilesPicked(n) == IF n = 0 THEN 0 ELSE FilesPicked(n - 1) + Len(batches[n].promises)

\* the upload button, disabled={loading}, then the picker's change event
PickFiles(files) ==
    /\ appState = Capturing
    /\ ~loading
    /\ FilesPicked(Len(batches)) + Len(files) <= MaxSessionFiles
    /\ handleFileChange(files)

\* the remove button of a rendered frame
ClickRemove(id) ==
    /\ appState = Capturing
    /\ \E i \in 1..Len(images) : images[i].id = id
    /\ handleRemoveImage(id)

MoveSlider(v) == appState = Capturing /\ setGifSpeed(v)
TypeSpeed(v)  == appState = Capturing /\ setGifSpeed(v)

ClickCreate ==
    /\ appState = Capturing
    /\ ~isCreateDisabled
    /\ handleCreateGif

\* onBack of the player, or the button of the Error view
ClickBack ==
    /\ \/ appState = Animating /\ generatedGif # Null
       \/ appState = Error
    /\ handleBack

ClickExport ==
    /\ appState = Animating /\ generatedGif # Null
    /\ ~isExporting
    /\ handleExport

Init ==
    /\ appState = Capturing
    /\ images = <<>>
    /\ generatedGif = Null
    /\ loading = FALSE
    /\ error = Null
    /\ gifSpeed = 120
    /\ batches = <<>>
    /\ nextId = 1
    /\ firstImage = Null
    /\ gifshot = Null
    /\ isExporting = FALSE
    /\ img = Null
    /\ canvas = Null

Browser ==
    \/ \E b \in 1..MaxSessionFiles, i \in 1..MaxSessionFiles :
          \/ \E hasResult \in BOOLEAN : ReaderOnLoad(b, i, hasResult)
          \/ ReaderOnError(b, i)
          \/ \E hasContext \in BOOLEAN : ImgOnLoad(b, i, hasContext)
          \/ ImgOnError(b, i)
    \/ FirstImageOnLoad
    \/ FirstImageOnError
    \/ GifshotSucceeds
    \/ \E errMsg \in EncoderMessages : GifshotFails(errMsg)
    \/ ExportTimeout

Next ==
    \/ \E files \in FileLists : PickFiles(files)
    \/ \E id \in 1..MaxSessionFiles : ClickRemove(id)
    \/ \E v \in SliderInputs : MoveSlider(v)
    \/ \E v \in NumberInputs : TypeSpeed(v)
    \/ ClickCreate
    \/ ClickBack
    \/ ClickExport
    \/ Browser

Spec == Init /\ [][Next]_vars

(***************************************************************************)
(* The browser's scheduling: a timer that was set fires, and a FileReader  *)
(* or an Image that was started fires one of its events.                   *)
(***************************************************************************)
FileEvents ==
    \E b \in 1..MaxSessionFiles, i \in 1..MaxSessionFiles :
        \/ \E hasResult \in BOOLEAN : ReaderOnLoad(b, i, hasResult)
        \/ ReaderOnError(b, i)
        \/ \E hasContext \in BOOLEAN : ImgOnLoad(b, i, hasContext)
        \/ ImgOnError(b, i)

\* a timer that was set fires
TimerSpec == Init /\ [][Next]_vars /\ WF_vars(ExportTimeout)

\* and every read and every decode that was started fires one of its events
FairSpec == Init /\ [][Next]_vars /\ WF_vars(ExportTimeout) /\ WF_vars(FileEvents)

(***************************************************************************)
(* The handlers called directly: handleCreateGif whatever isCreateDisabled *)
(* says, handleRemoveImage with any id (a retried remove).                 *)
(***************************************************************************)
CallCreate == appState = Capturing /\ handleCreateGif

CallRemove(id) == appState = Capturing /\ handleRemoveImage(id)

NextDirect ==
    \/ \E files \in FileLists : PickFiles(files)
    \/ \E id \in 1..MaxSessionFiles : CallRemove(id)
    \/ \E v \in SliderInputs : MoveSlider(v)
    \/ \E v \in NumberInputs : TypeSpeed(v)
    \/ CallCreate
    \/ ClickBack
    \/ ClickExport
    \/ Browser

SpecDirect == Init /\ [][NextDirect]_vars

(***************************************************************************)
(* processImage alone, on a decoded image of any sampled size.             *)
(***************************************************************************)
SampleDims == {147, 597, 600, 800, 1080, 1342, 2000, 2304, 2560, 3000, 4000}

Dims == (1..SmallDims) \cup ((maxDimension - EdgeDims)..(maxDimension + EdgeDims))
            \cup SampleDims

InitAlone ==
    /\ appState = Capturing
    /\ images = <<>>
    /\ generatedGif = Null
    /\ loading = FALSE
    /\ error = Null
    /\ gifSpeed = 120
    /\ batches = <<>>
    /\ nextId = 1
    /\ firstImage = Null
    /\ gifshot = Null
    /\ isExporting = FALSE
    /\ img \in {[naturalWidth |-> w, naturalHeight |-> h] : w \in Dims, h \in Dims}
    /\ canvas = Null

\* img.onload of processImage (src/App.tsx:19-52) with a 2d context
ImgOnLoadAlone ==
    /\ canvas = Null
    /\ canvas' = processImage(img.naturalWidth, img.naturalHeight)
    /\ UNCHANGED <<appState, images, generatedGif, loading, error, gifSpeed, batches,
                   nextId, firstImage, gifshot, isExporting, img>>

SpecAlone == InitAlone /\ [][ImgOnLoadAlone]_vars

(***************************************************************************)
(* The claims.                                                             *)
(***************************************************************************)
BatchIds == 1..Len(batches)

Unsettled(b) == batches[b].all = "pending"

\* C1: a batch one of whose files fails to be read or decoded is dropped whole:
\* the step that rejects it leaves the frames as they are, sets an error
\* message, clears loading and stays in Capturing, and no frame of a rejected
\* batch is ever in the collection.
C1_BatchAllOrNothing ==
    /\ [][\A b \in BatchIds :
            (Unsettled(b) /\ batches'[b].all = "rejected") =>
                /\ images' = images
                /\ error' # Null
                /\ error'.message \in {ErrReadFile, ErrLoadImage, ErrCanvas, ErrCanvasResize}
                /\ ~loading'
                /\ appState = Capturing /\ appState' = Capturing]_vars
    /\ [](\A b \in BatchIds : batches[b].all = "rejected" =>
            \A k \in 1..Len(images) : images[k].dataUrl.batch # b)

\* a batch failed after one of its files had been normalised, and nothing was kept
C1_Witness ==
    /\ Len(batches) = 1
    /\ batches[1].all = "rejected"
    /\ \A i \in 1..Len(batches[1].promises) : ~InFlight(batches[1].promises[i])
    /\ nextId > 1
    /\ images = <<>>
    /\ error # Null
    /\ ~loading

\* the positions of the image files of unsettled batch b
ImagePositions(b) ==
    {i \in 1..Len(batches[b].promises) :
        ~(batches[b].promises[i].st = "resolved" /\ batches[b].promises[i].value = Null)}

\* C2: when every file of a batch normalises, the step that fulfils the batch
\* appends its frames after the frames already there, one per image file, in
\* the order of the files, whatever order the normalisations completed in.
C2_InputOrderKept ==
    [][\A b \in BatchIds :
         (Unsettled(b) /\ batches'[b].all = "fulfilled") =>
            LET old == Len(images)
                new == Len(images') - old
            IN  /\ new = Cardinality(ImagePositions(b))
                /\ SubSeq(images', 1, old) = images
                /\ \A k \in 1..new :
                      /\ images'[old + k].dataUrl.batch = b
                      /\ images'[old + k].dataUrl.file \in ImagePositions(b)
                /\ \A k, l \in 1..new :
                      k < l => images'[old + k].dataUrl.file < images'[old + l].dataUrl.file]_vars

\* frames of one batch whose normalisations completed against the input order
C2_Witness ==
    \E k, l \in 1..Len(images) :
        /\ k < l
        /\ images[k].dataUrl.batch = images[l].dataUrl.batch
        /\ images[k].dataUrl.file < images[l].dataUrl.file
        /\ images[k].id > images[l].id

\* C3: handleCreateGif with fewer than 2 frames sets the validation error,
\* stays in Capturing and starts neither the probe nor the encoder; no probe
\* and no encoder call ever holds fewer than 2 frames.
C3_NoAssemblyBelowTwoFrames ==
    /\ [][(Len(images) < 2 /\ handleCreateGif) =>
            /\ error' = Message(ErrMinFrames)
            /\ appState = Capturing /\ appState' = Capturing
            /\ firstImage' = Null
            /\ gifshot' = Null
            /\ images' = images]_vars
    /\ [](firstImage # Null => Len(firstImage.imageUrls) >= 2)
    /\ [](gifshot # Null => Len(gifshot.images) >= 2)
    /\ [](Len(images) < 2 => appState = Capturing /\ firstImage = Null /\ gifshot = Null)

C3_Witness ==
    /\ Len(images) = 1
    /\ error = Message(ErrMinFrames)
    /\ appState = Capturing
    /\ firstImage = Null
    /\ gifshot = Null

\* the frames handed to the assembly that is pending
Submitted == IF firstImage # Null THEN firstImage.imageUrls ELSE gifshot.images

\* C4: an assembly that fails (the probe's onerror, or the encoder's callback
\* with error) goes from Processing to Capturing, never to Error, sets an
\* error message, which carries the encoder's errorMsg when the encoder
\* failed, stores no GIF, and leaves the frames those submitted.
C4_FailedAssemblyBackToCapturing ==
    /\ [][(FirstImageOnError \/ \E m \in EncoderMessages : GifshotFails(m)) =>
            /\ appState = Processing /\ appState' = Capturing
            /\ error' # Null
            /\ generatedGif' = Null
            /\ images' = images
            /\ DataUrls(images') = Submitted]_vars
    /\ [][\A m \in EncoderMessages : GifshotFails(m) => error'.errorMsg = m]_vars
    /\ [][FirstImageOnError => error' = Message(ErrProbe)]_vars
    /\ [][(appState = Processing /\ appState' # Processing) =>
            appState' \in {Animating, Capturing}]_vars

C4_Witness ==
    /\ appState = Capturing
    /\ error = GifFailed("oom")
    /\ generatedGif = Null
    /\ Len(images) >= 2

\* C5: the encoder's success takes Processing, entered from Capturing, to
\* Animating and stores a GIF; leaving Animating (Back) goes to Capturing,
\* drops the GIF and keeps the frames and the timing.
C5_SuccessThenBack ==
    /\ [][GifshotSucceeds =>
            appState = Processing /\ appState' = Animating /\ generatedGif' # Null]_vars
    /\ [][(appState # Processing /\ appState' = Processing) => appState = Capturing]_vars
    /\ [][(appState # Animating /\ appState' = Animating) =>
            appState = Processing /\ generatedGif' # Null]_vars
    /\ [][(appState = Animating /\ appState' # Animating) =>
            /\ appState' = Capturing
            /\ generatedGif' = Null
            /\ images' = images
            /\ gifSpeed' = gifSpeed]_vars

C5_Witness ==
    /\ appState = Animating
    /\ generatedGif # Null
    /\ Len(images) = 3

\* C6 as stated: the only phase changes are Capturing->Processing,
\* Processing->Animating, Processing->Error, Animating->Capturing and
\* Error->Capturing.
C6_TransitionsAsStated ==
    [][appState' # appState =>
         <<appState, appState'>> \in {<<Capturing, Processing>>, <<Processing, Animating>>,
                                      <<Processing, Error>>, <<Animating, Capturing>>,
                                      <<Error, Capturing>>}]_vars

\* C6, amended: the phase starts at Capturing and the only phase changes are
\* those and Processing->Capturing, which a failed assembly takes.
C6_Transitions ==
    /\ appState = Capturing
    /\ [][appState' # appState =>
            <<appState, appState'>> \in {<<Capturing, Processing>>, <<Processing, Animating>>,
                                         <<Processing, Error>>, <<Processing, Capturing>>,
                                         <<Animating, Capturing>>, <<Error, Capturing>>}]_vars

\* back in Capturing after a failed assembly
C6_Witness ==
    /\ appState = Capturing
    /\ error \in {Message(ErrProbe)} \cup {GifFailed(m) : m \in EncoderMessages}

AssemblyPending == firstImage # Null \/ gifshot # Null

\* batches with a file read or an image decode still running
Busy(b) == \E i \in 1..Len(batches[b].promises) : InFlight(batches[b].promises[i])

One(p) == IF p THEN 1 ELSE 0

\* C7 as stated: at most one asynchronous operation is pending at any time,
\* a batch counting while any of its reads or decodes is.
C7_OneOperationAsStated ==
    Cardinality({b \in BatchIds : Unsettled(b) \/ Busy(b)}) + One(AssemblyPending) <= 1

\* C7, amended: at most one of the unsettled batches and the assembly is
\* pending at any time; loading says a batch is unsettled, Processing that an
\* assembly is pending, on the probe or on the encoder.  What is left running
\* of a batch that has failed is not counted.
C7_OneUnsettledOperation ==
    /\ Cardinality({b \in BatchIds : Unsettled(b)}) + One(AssemblyPending) <= 1
    /\ loading <=> \E b \in BatchIds : Unsettled(b)
    /\ AssemblyPending <=> appState = Processing
    /\ ~(firstImage # Null /\ gifshot # Null)

\* a read of a failed batch still runs while the next batch is unsettled
C7_Witness ==
    \E b, c \in BatchIds :
        /\ batches[b].all = "rejected" /\ Busy(b)
        /\ Unsettled(c)

Ids == 1..MaxSessionFiles

Positions(frames, id) == {k \in 1..Len(frames) : frames[k].id = id}

\* C8: handleRemoveImage(id) takes out the one frame with that id and keeps
\* the others in order; with no such frame it changes nothing; it never
\* touches the error; a second remove of the same id changes nothing more.
C8_RemoveById ==
    /\ [][\A id \in Ids : handleRemoveImage(id) =>
            /\ error' = error
            /\ IF Positions(images, id) = {} THEN images' = images
               ELSE \E k \in Positions(images, id) :
                       /\ Positions(images, id) = {k}
                       /\ images' = SubSeq(images, 1, k - 1) \o SubSeq(images, k + 1, Len(images))]_vars
    /\ [](\A id \in Ids : RemoveById(RemoveById(images, id), id) = RemoveById(images, id))
    /\ [](\A k, l \in 1..Len(images) : images[k].id = images[l].id => k = l)

\* every batch was appended whole, and some of the frames are gone
C8_Witness ==
    /\ batches # <<>>
    /\ \A b \in BatchIds : batches[b].all = "fulfilled"
    /\ Len(images) >= 1
    /\ Len(images) < nextId - 1

\* round half up of n / d, for n >= 0 and d > 0
RoundHalfUp(n, d) == (2 * n + d) \div (2 * d)

\* C9: an image within 1920 on both sides keeps its size; a larger one gets
\* its larger side set to 1920 and the other to round(other * 1920 / larger).
C9_NormalizerDimensions ==
    canvas # Null =>
        LET w == img.naturalWidth
            h == img.naturalHeight
        IN  IF w <= 1920 /\ h <= 1920
            THEN canvas.width = w /\ canvas.height = h
            ELSE IF w >= h
            THEN canvas.width = 1920 /\ canvas.height = RoundHalfUp(h * 1920, w)
            ELSE canvas.height = 1920 /\ canvas.width = RoundHalfUp(w * 1920, h)

\* C10: the pending encoder call holds the data URLs of the frames in
\* collection order, gifSpeed / 1000 as interval, 2 workers and the size of
\* the first frame; the probe holds the same from the trigger on, and frames
\* and timing stay as they were at the trigger while the assembly is pending.
C10_EncoderOptions ==
    /\ [](gifshot # Null =>
            /\ gifshot.images = DataUrls(images)
            /\ gifshot.interval.num * 1000 = gifSpeed * gifshot.interval.den
            /\ gifshot.interval.den > 0
            /\ gifshot.numWorkers = 2
            /\ gifshot.gifWidth = images[1].dataUrl.width
            /\ gifshot.gifHeight = images[1].dataUrl.height)
    /\ [](gifSpeed = 100 /\ gifshot # Null => gifshot.interval = [num |-> 1, den |-> 10])
    /\ [](firstImage # Null =>
            /\ firstImage.imageUrls = DataUrls(images)
            /\ firstImage.intervalInSeconds.num * 1000
                  = gifSpeed * firstImage.intervalInSeconds.den
            /\ firstImage.src = images[1].dataUrl)
    /\ [][appState = Processing => images' = images /\ gifSpeed' = gifSpeed]_vars

\* the encoder called with two frames of different sizes at 100 ms per frame
C10_Witness ==
    /\ gifshot # Null
    /\ Len(images) = 2
    /\ gifSpeed = 100
    /\ images[1].dataUrl.width # images[2].dataUrl.width

\* C11: the milliseconds per frame stay within the range 50..2000 of the
\* slider and the numeric input, and so does every interval handed to the
\* probe and to the encoder (in seconds, 50/1000..2000/1000).
C11_TimingBounded ==
    /\ gifSpeed \in 50..2000
    /\ firstImage # Null =>
          /\ 50 * firstImage.intervalInSeconds.den <= 1000 * firstImage.intervalInSeconds.num
          /\ 1000 * firstImage.intervalInSeconds.num <= 2000 * firstImage.intervalInSeconds.den
    /\ gifshot # Null =>
          /\ 50 * gifshot.interval.den <= 1000 * gifshot.interval.num
          /\ 1000 * gifshot.interval.num <= 2000 * gifshot.interval.den

\* the promise of a file that is not an image: resolved with null at once
Skipped(p) == p = Promise("resolved", Null)

\* C12: a file whose type is not an image resolves to null when it is picked
\* and stays so: picking clears the error, a selection of such files only
\* leaves the frames as they are and loading false, an unsettled batch is
\* rejected only by a read or a decode of one of its image files, and the step
\* that fulfils a batch appends one frame per image file, in file order.
C12_NonImagesDropped ==
    /\ [][Len(batches') = Len(batches) + 1 =>
          \A files \in [1..Len(batches'[Len(batches')].promises) -> Files] :
            PickFiles(files) =>
                LET b == Len(batches) + 1
                    others == {i \in 1..Len(files) : ~IsImageType(files[i])}
                IN  /\ error' = Null
                    /\ Len(batches') = b
                    /\ IF others = 1..Len(files)
                       THEN /\ images' = images
                            /\ ~loading'
                            /\ batches'[b].all = "fulfilled"
                       ELSE /\ images' = images
                            /\ batches'[b].all = "pending"
                            /\ \A i \in 1..Len(files) :
                                  i \in others <=> Skipped(batches'[b].promises[i])]_vars
    /\ [][\A b \in BatchIds :
            Unsettled(b) =>
                \A i \in 1..Len(batches[b].promises) :
                    Skipped(batches[b].promises[i]) =>
                        \/ Skipped(batches'[b].promises[i])
                        \/ batches'[b].all # "pending" /\ \E j \in 1..Len(batches[b].promises) :
                              InFlight(batches[b].promises[j])
                                 /\ ~InFlight(batches'[b].promises[j])]_vars
    /\ [][\A b \in BatchIds :
            (Unsettled(b) /\ batches'[b].all = "fulfilled") =>
                LET old    == Len(images)
                    new    == Len(images') - old
                    others == {i \in 1..Len(batches[b].promises) :
                                  Skipped(batches[b].promises[i])}
                IN  /\ new = Len(batches[b].promises) - Cardinality(others)
                    /\ error' = error
                    /\ \A k \in 1..new :
                          /\ images'[old + k].dataUrl.batch = b
                          /\ images'[old + k].dataUrl.file \notin others
                          /\ k > 1 => images'[old + k - 1].dataUrl.file
                                         < images'[old + k].dataUrl.file]_vars

\* a selection of an image, another file and an image, appended as two frames
C12_Witness ==
    /\ Len(batches) = 1
    /\ batches[1].all = "fulfilled"
    /\ Len(batches[1].promises) = 3
    /\ nextId = 3
    /\ Len(images) = 2
    /\ images[1].dataUrl.file = 1
    /\ images[2].dataUrl.file = 3
    /\ error = Null

\* C13: a click on Export in Animating sets isExporting and changes neither
\* the phase, nor the GIF, nor the frames; while isExporting is set the
\* Export button takes no click; only the timer (or leaving the player)
\* clears it, and once set it is eventually cleared.
C13_ExportCooldown ==
    /\ [][ClickExport =>
            /\ ~isExporting /\ isExporting'
            /\ appState = Animating /\ appState' = Animating
            /\ generatedGif' = generatedGif /\ generatedGif # Null
            /\ images' = images]_vars
    /\ [](isExporting => appState = Animating /\ ~ENABLED ClickExport)
    /\ [][(isExporting /\ ~isExporting') => (ExportTimeout \/ ClickBack)]_vars
    /\ [][(~isExporting /\ isExporting') => ClickExport]_vars
    /\ (isExporting ~> ~isExporting)

\* Export was clicked and its timer has not fired
C13_Witness ==
    /\ isExporting
    /\ appState = Animating
    /\ generatedGif # Null

\* the messages of the errors a session can set
UploadErrors   == {Message(m) : m \in {ErrReadFile, ErrLoadImage, ErrCanvas, ErrCanvasResize}}
AssemblyErrors == {Message(ErrMinFrames), Message(ErrProbe)}
                     \cup {GifFailed(m) : m \in EncoderMessages}

\* C14: while an error message is set, the upload button is enabled (loading
\* is false) and the phase is Capturing, or is one whose view has a Back
\* button that leads there; the step that sets an error message leaves the
\* frames as they are, and so does Back.
C14_NoFatalError ==
    /\ [](error # Null =>
            /\ error \in UploadErrors \cup AssemblyErrors
            /\ ~loading
            /\ appState = Capturing \/ (appState \in {Error, Animating} /\ ENABLED ClickBack))
    /\ [][(error' # error /\ error' # Null) => images' = images]_vars
    /\ [][ClickBack => appState' = Capturing /\ images' = images /\ loading' = loading]_vars

\* a read failed after two frames had been collected
C14_Witness ==
    /\ error = Message(ErrReadFile)
    /\ appState = Capturing
    /\ ~loading
    /\ Len(images) = 2

\* C15: with every read and every decode firing one of its events, loading
\* that is true eventually returns to false, the batch appended or reported.
C15_BatchSettles == loading ~> ~loading

\* the frames among frames whose id is in ids, in their order
Keep(frames, ids) == SelectSeq(frames, LAMBDA f : f.id \in ids)

\* C16: a remove clicked while a batch is unsettled takes its frame out at
\* once and leaves the batch alone; while the batch is unsettled the frames
\* are those of its submission without the removed ones, in their order; the
\* step that fulfils it gives exactly these followed by the batch's frames in
\* file order; and no id is ever twice in the collection.
C16_RemovesNotLost ==
    /\ [][\A id \in Ids :
            (loading /\ ClickRemove(id)) =>
                /\ images' = Keep(images, FrameIds(images) \ {id})
                /\ Len(images') = Len(images) - 1
                /\ loading'
                /\ \A b \in BatchIds :
                      /\ batches'[b].promises = batches[b].promises
                      /\ batches'[b].all = batches[b].all]_vars
    /\ [](\A b \in BatchIds :
            Unsettled(b) => images = Keep(batches[b].atSubmit, FrameIds(images)))
    /\ [][\A b \in BatchIds :
            (Unsettled(b) /\ batches'[b].all = "fulfilled") =>
                LET removed == FrameIds(batches[b].atSubmit) \ FrameIds(images)
                    kept    == Keep(batches[b].atSubmit, FrameIds(batches[b].atSubmit) \ removed)
                    new     == Len(images') - Len(kept)
                IN  /\ batches'[b].removed = removed
                    /\ new = Cardinality(ImagePositions(b))
                    /\ SubSeq(images', 1, Len(kept)) = kept
                    /\ \A k \in 1..new :
                          /\ images'[Len(kept) + k].dataUrl.batch = b
                          /\ images'[Len(kept) + k].id \notin FrameIds(batches[b].atSubmit)
                          /\ k > 1 => images'[Len(kept) + k - 1].dataUrl.file
                                         < images'[Len(kept) + k].dataUrl.file]_vars
    /\ [](Cardinality(FrameIds(images)) = Len(images))

\* a batch was appended after a frame had been removed while it was unsettled
C16_Witness ==
    \E b \in BatchIds :
        /\ batches[b].all = "fulfilled"
        /\ batches[b].removed # {}
        /\ batches[b].removed \cap FrameIds(images) = {}
        /\ \E k, l \in 1..Len(images) :
              k < l /\ images[k].dataUrl.batch < b /\ images[l].dataUrl.batch = b

\* C17: there is a GIF exactly when the phase is Animating, the GIF is the one
\* the encoder made of the frames submitted, the Animating view has its Back
\* button, and leaving Animating drops the GIF.
C17_GifOnlyInAnimating ==
    /\ [](generatedGif # Null <=> appState = Animating)
    /\ [](appState = Animating => ENABLED ClickBack)
    /\ [][GifshotSucceeds => generatedGif = Null /\ generatedGif' = Encoded(gifshot)]_vars
    /\ [][(appState = Animating /\ appState' # Animating) => generatedGif' = Null]_vars
    /\ [][generatedGif' # generatedGif => (GifshotSucceeds \/ ClickBack)]_vars

\* the player shows the GIF made of the two frames of the collection
C17_Witness ==
    /\ appState = Animating
    /\ Len(images) = 2
    /\ generatedGif # Null
    /\ generatedGif.gif.images = DataUrls(images)

\* C18: the canvas of an image at least 1 wide and 1 high is at least 1 and
\* at most 1920 on both sides.
C18_UsableDimensions ==
    (canvas # Null /\ img.naturalWidth >= 1 /\ img.naturalHeight >= 1) =>
        /\ canvas.width \in 1..1920
        /\ canvas.height \in 1..1920

\* C19: the step that fulfils a batch submitted after another was rejected
\* appends one frame per image file of the batch, in file order, with the
\* error still cleared and loading false; a read or a decode of a rejected
\* batch that completes afterwards changes neither the frames, nor the error,
\* nor loading, nor the phase, and no frame of a rejected batch is ever there.
C19_BatchesIndependent ==
    /\ [][\A c \in BatchIds :
            (/\ Unsettled(c) /\ batches'[c].all = "fulfilled"
             /\ \E b \in 1..(c - 1) : batches[b].all = "rejected") =>
                LET old == Len(images)
                    new == Len(images') - old
                IN  /\ error = Null /\ error' = Null
                    /\ ~loading'
                    /\ new = Cardinality(ImagePositions(c))
                    /\ SubSeq(images', 1, old) = images
                    /\ \A k \in 1..new :
                          /\ images'[old + k].dataUrl.batch = c
                          /\ k > 1 => images'[old + k - 1].dataUrl.file
                                         < images'[old + k].dataUrl.file]_vars
    /\ [][\A b \in BatchIds :
            (batches[b].all = "rejected" /\ batches'[b] # batches[b]) =>
                /\ batches'[b].all = "rejected"
                /\ images' = images
                /\ error' = error
                /\ loading' = loading
                /\ appState' = appState]_vars
    /\ [](\A b \in BatchIds, k \in 1..Len(images) :
            images[k].dataUrl.batch = b => batches[b].all = "fulfilled")

\* a batch failed; the next one was appended, its frame normalised before the
\* last file of the failed batch was
C19_Witness ==
    \E b, c \in BatchIds :
        /\ b < c
        /\ batches[b].all = "rejected" /\ ~Busy(b)
        /\ batches[c].all = "fulfilled"
        /\ error = Null
        /\ Len(images) = 1
        /\ images[1].dataUrl.batch = c
        /\ images[1].id = 1
        /\ nextId = 3

=============================================================================
